---- MODULE Spec2Model ----
(***************************************************************************)
(* Collaborative canvas editor: the design slice (layers, selection,       *)
(* undo/redo history) of each client, the editor page's socket handlers    *)
(* and the server's relay of room events.                                  *)
(***************************************************************************)
EXTENDS Integers, Sequences, FiniteSets, TLC

VARIABLES
    design,               \* client -> DesignState (designSlice.ts)
    isConnected,          \* client -> socket.isConnected (useSocket.ts)
    joinSent,             \* client -> the join effect has run for this connection
    requestTimer,         \* client -> the 500 ms request-current-state timer is pending
    prevHistoryIndexRef,  \* client -> EditorPage's prevHistoryIndexRef.current
    up,                   \* client -> FIFO of events the client emitted, not yet handled by the server
    down,                 \* client -> FIFO of events the server emitted to the client, not yet handled
    rooms,                \* the connections in the design's socket.io room
    ops,                  \* client -> number of local operations performed
    handshake,            \* client -> progress of its state-recovery handshake
    quiet,                \* client -> no edit or remote update happened since it loaded the design
    recovered,            \* client -> ids of the layers its state response carried
    deletedBy,            \* client -> ids it deleted locally
    stamp,                \* history scenario: number of local edits since the load
    undone,               \* history scenario: undo() calls since the last edit
    branches,             \* history scenario: edits below the top of the history, remote events
    pureRun,              \* history scenario: only edits followed by undo() calls so far
    trail,                \* 1, 2: one, several edits in a row; 3: then undo(); 4: then redo(); else 0
    mark,                 \* layers, selection and cursor right after the last local edit
    last,                 \* reducer scenario: the last reducer applied, its inputs, the state before
    activeUsers,          \* server: designId -> user ids in insertion order (a JS Set), entries as stored
    sockets,              \* server: connection -> its state, userId, currentDesignId and rooms
    inbox,                \* server: connection -> events the server emitted to it, in order
    events,               \* server: the events handled so far, in order
    documents,            \* REST: the ObjectIds of the designs in the collection
    objectIds,            \* REST: number of ObjectIds generated so far
    removed,              \* REST: the ObjectIds a DELETE has answered 200 for
    response              \* REST: the last request and the response it got

vars == <<design, isConnected, joinSent, requestTimer, prevHistoryIndexRef, up, down,
          rooms, ops, handshake, quiet, recovered, deletedBy, stamp, undone, branches,
          pureRun, trail, mark, last, activeUsers, sockets, inbox, events,
          documents, objectIds, removed, response>>

net == <<isConnected, joinSent, requestTimer, up, down, rooms>>

presence == <<activeUsers, sockets, inbox, events>>

rest == <<documents, objectIds, removed, response>>

-----------------------------------------------------------------------------
(* Bounds and program constants *)

MAX_HISTORY == 20

MaxOps == 3
MaxJoinOps == 2
MaxSoloOps == 4
MaxStamp == 22
MaxBranches == 1
MaxReducerOps == 2

Clients == {"A", "B"}
Other(c) == CHOOSE d \in Clients : d # c

-----------------------------------------------------------------------------
(* Layers *)

None == <<"none", 0>>
Lid(owner, k) == <<owner, k>>
Owner(id) == id[1]

\* A layer: id, zIndex, name, visible, locked; val stands for the geometry and
\* the type payload (position, dimensions, rotation, text/image/shape).
Layer(id, z, v) == [id |-> id, zIndex |-> z, name |-> "Layer", visible |-> TRUE,
                    locked |-> FALSE, val |-> v]
NoLayer == Layer(None, 0, 0)

Ids(ls) == {ls[i].id : i \in 1..Len(ls)}
ZIndexes(ls) == {ls[i].zIndex : i \in 1..Len(ls)}

\* Array.prototype.findIndex on the id, 1-based; 0 when absent.
FindIndex(ls, id) ==
    IF id \in Ids(ls) THEN CHOOSE i \in 1..Len(ls) :
                              /\ ls[i].id = id
                              /\ \A j \in 1..(i-1) : ls[j].id # id
    ELSE 0

Filter(ls, id) == SelectSeq(ls, LAMBDA l : l.id # id)

\* Position of ls[i] in [...ls].sort((a, b) => a.zIndex - b.zIndex): the sort is stable.
Rank(ls, i) == Cardinality({j \in 1..Len(ls) :
                   \/ ls[j].zIndex < ls[i].zIndex
                   \/ ls[j].zIndex = ls[i].zIndex /\ j < i})

\* sortedLayers.forEach((layer, idx) => { layer.zIndex = idx }): the array keeps its order.
NormalizeZIndex(ls) == [i \in 1..Len(ls) |-> [ls[i] EXCEPT !.zIndex = Rank(ls, i)]]

\* state.layers.sort((a, b) => a.zIndex - b.zIndex)
SortByZIndex(ls) == [k \in 1..Len(ls) |-> ls[CHOOSE i \in 1..Len(ls) : Rank(ls, i) = k - 1]]

Dense(ls) == /\ ZIndexes(ls) = 0..(Len(ls) - 1)
             /\ \A i, j \in 1..Len(ls) : i # j => ls[i].zIndex # ls[j].zIndex

-----------------------------------------------------------------------------
(* The design slice: reducers as functions of the slice's state *)

initialState == [loaded |-> FALSE, layers |-> <<>>, selectedLayerId |-> None,
                 history |-> <<>>, historyIndex |-> -1]

Snapshot(s) == [layers |-> s.layers, selectedLayerId |-> s.selectedLayerId]

Mark(s) == [layers |-> s.layers, selectedLayerId |-> s.selectedLayerId,
            historyIndex |-> s.historyIndex]

setCurrentDesign(s, ls) ==
    [s EXCEPT !.loaded = TRUE, !.layers = ls,
              !.history = <<[layers |-> ls, selectedLayerId |-> None]>>,
              !.historyIndex = 0]

\* The block every local reducer ends with: drop the redo branch, push, evict.
SaveNoEvict(s) ==
    [s EXCEPT !.history = Append(SubSeq(s.history, 1, s.historyIndex + 1), Snapshot(s)),
              !.historyIndex = s.historyIndex + 1]

SaveEvictAdvance(s) ==
    LET pushed == Append(SubSeq(s.history, 1, s.historyIndex + 1), Snapshot(s))
    IN IF Len(pushed) > MAX_HISTORY
       THEN [s EXCEPT !.history = Tail(pushed), !.historyIndex = s.historyIndex + 1]
       ELSE [s EXCEPT !.history = pushed, !.historyIndex = s.historyIndex + 1]

SaveKeepFuture(s) ==
    LET pushed == Append(s.history, Snapshot(s))
    IN IF Len(pushed) > MAX_HISTORY
       THEN [s EXCEPT !.history = Tail(pushed)]
       ELSE [s EXCEPT !.history = pushed, !.historyIndex = s.historyIndex + 1]

SaveToHistory(s) ==
    LET pushed == Append(SubSeq(s.history, 1, s.historyIndex + 1), Snapshot(s))
    IN IF Len(pushed) > MAX_HISTORY
       THEN [s EXCEPT !.history = Tail(pushed)]
       ELSE [s EXCEPT !.history = pushed, !.historyIndex = s.historyIndex + 1]

addLayerNoNormalize(s, payload) ==
    SaveToHistory([s EXCEPT !.layers = Append(s.layers, payload)])

addLayer(s, payload) ==
    SaveToHistory([s EXCEPT !.layers = NormalizeZIndex(Append(s.layers, payload))])

updateLayer(s, payload) ==
    LET index == FindIndex(s.layers, payload.id)
    IN IF index # 0
       THEN SaveToHistory([s EXCEPT !.layers[index] = payload])
       ELSE s

deleteLayer(s, id) ==
    SaveToHistory([s EXCEPT
        !.layers = NormalizeZIndex(Filter(s.layers, id)),
        !.selectedLayerId = IF s.selectedLayerId = id THEN None ELSE s.selectedLayerId])

SwapZIndex(ls, i, target) ==
    LET j == CHOOSE k \in 1..Len(ls) :
                 /\ ls[k].zIndex = target
                 /\ \A m \in 1..(k-1) : ls[m].zIndex # target
    IN [ls EXCEPT ![i].zIndex = target, ![j].zIndex = ls[i].zIndex]

reorderLayerOneSided(s, layerId, direction) ==
    LET normalized == NormalizeZIndex(s.layers)
        i == FindIndex(normalized, layerId)
    IN IF i = 0
       THEN [s EXCEPT !.layers = normalized]
       ELSE LET currentZIndex == normalized[i].zIndex
                maxZIndex == Len(normalized) - 1
                moved == IF direction = "forward" /\ currentZIndex < maxZIndex
                         THEN [normalized EXCEPT ![i].zIndex = currentZIndex + 1]
                         ELSE IF direction = "backward" /\ currentZIndex > 0
                         THEN [normalized EXCEPT ![i].zIndex = currentZIndex - 1]
                         ELSE normalized
            IN SaveToHistory([s EXCEPT !.layers = SortByZIndex(moved)])

reorderLayer(s, layerId, direction) ==
    LET normalized == NormalizeZIndex(s.layers)
        i == FindIndex(normalized, layerId)
    IN IF i = 0
       THEN [s EXCEPT !.layers = normalized]
       ELSE LET currentZIndex == normalized[i].zIndex
                maxZIndex == Len(normalized) - 1
                moved == IF direction = "forward" /\ currentZIndex < maxZIndex
                         THEN SwapZIndex(normalized, i, currentZIndex + 1)
                         ELSE IF direction = "backward" /\ currentZIndex > 0
                         THEN SwapZIndex(normalized, i, currentZIndex - 1)
                         ELSE normalized
            IN SaveToHistory([s EXCEPT !.layers = SortByZIndex(moved)])

\* newName.trim() is modelled by the names themselves: "" stands for a blank name.
renameLayer(s, layerId, newName) ==
    LET i == FindIndex(s.layers, layerId)
    IN IF i # 0 /\ newName # ""
       THEN SaveToHistory([s EXCEPT !.layers[i].name = newName])
       ELSE s

toggleLayerVisibilityHide(s, id) ==
    LET i == FindIndex(s.layers, id)
    IN IF i # 0
       THEN SaveToHistory([s EXCEPT !.layers[i].visible = FALSE])
       ELSE s

toggleLayerVisibility(s, id) ==
    LET i == FindIndex(s.layers, id)
    IN IF i # 0
       THEN SaveToHistory([s EXCEPT !.layers[i].visible = ~s.layers[i].visible])
       ELSE s

toggleLayerLock(s, id) ==
    LET i == FindIndex(s.layers, id)
    IN IF i # 0
       THEN SaveToHistory([s EXCEPT
               !.layers[i].locked = ~s.layers[i].locked,
               !.selectedLayerId = IF ~s.layers[i].locked /\ s.selectedLayerId = id
                                   THEN None ELSE s.selectedLayerId])
       ELSE s

selectLayer(s, id) == [s EXCEPT !.selectedLayerId = id]

undo(s) ==
    IF s.historyIndex > 0
    THEN [s EXCEPT !.historyIndex = s.historyIndex - 1,
                   !.layers = s.history[s.historyIndex].layers,
                   !.selectedLayerId = s.history[s.historyIndex].selectedLayerId]
    ELSE s

redoStale(s) ==
    IF s.historyIndex < Len(s.history) - 1
    THEN [s EXCEPT !.historyIndex = s.historyIndex + 1,
                   !.layers = s.history[s.historyIndex + 1].layers,
                   !.selectedLayerId = s.history[s.historyIndex + 1].selectedLayerId]
    ELSE s

redo(s) ==
    IF s.historyIndex < Len(s.history) - 1
    THEN [s EXCEPT !.historyIndex = s.historyIndex + 1,
                   !.layers = s.history[s.historyIndex + 2].layers,
                   !.selectedLayerId = s.history[s.historyIndex + 2].selectedLayerId]
    ELSE s

\* Remote reducers: no history update.
remoteAddLayer(s, payload) ==
    [s EXCEPT !.layers = NormalizeZIndex(Append(s.layers, payload))]

remoteUpdateLayerRecording(s, payload) == updateLayer(s, payload)

remoteUpdateLayer(s, payload) ==
    LET index == FindIndex(s.layers, payload.id)
    IN IF index # 0 THEN [s EXCEPT !.layers[index] = payload] ELSE s

remoteDeleteLayer(s, id) ==
    [s EXCEPT
        !.layers = NormalizeZIndex(Filter(s.layers, id)),
        !.selectedLayerId = IF s.selectedLayerId = id THEN None ELSE s.selectedLayerId]

remoteUpdateLayersMerge(s, ls) ==
    [s EXCEPT !.layers = ls \o SelectSeq(s.layers, LAMBDA l : l.id \notin Ids(ls))]

remoteUpdateLayers(s, ls) == [s EXCEPT !.layers = ls]

-----------------------------------------------------------------------------
(* Events on the wire *)

Msg(type, userId, action, layerId, layer, layers, requestingUserId) ==
    [type |-> type, userId |-> userId, action |-> action, layerId |-> layerId,
     layer |-> layer, layers |-> layers, requestingUserId |-> requestingUserId]

DesignUpdate(userId, action, layerId, layer, layers) ==
    Msg("design-update", userId, action, layerId, layer, layers, "")

BroadcastAlways(c, msgs) == msgs

\* useSocket.broadcastDesignUpdate behind the callers' isConnected check.
Broadcast(c, msgs) == IF isConnected[c] THEN msgs ELSE <<>>

\* EditorPage's effect on [historyIndex, layers, ...]: it runs after the reducer.
UndoRedoEffect(c, s2) ==
    IF /\ prevHistoryIndexRef[c] # s2.historyIndex
       /\ prevHistoryIndexRef[c] # -1
       /\ isConnected[c] /\ s2.loaded
    THEN <<DesignUpdate(c, "undo-redo", None, NoLayer, s2.layers)>>
    ELSE <<>>

\* A dispatch on client c and what the components emit around it.
Dispatch(c, s2, msgs) ==
    /\ design' = [design EXCEPT ![c] = s2]
    /\ up' = [up EXCEPT ![c] = @ \o Broadcast(c, msgs) \o UndoRedoEffect(c, s2)]
    /\ prevHistoryIndexRef' = [prevHistoryIndexRef EXCEPT ![c] = s2.historyIndex]
    /\ UNCHANGED <<isConnected, joinSent, requestTimer, down, rooms>>

-----------------------------------------------------------------------------
(* Local operations of a client (FabricCanvas, PropertiesPanel, LayersPanel, TopBar) *)

\* EditorPage's join effect on [currentDesign?._id, socket.isConnected, ...]: it runs
\* right after the render in which both hold, emits join-design and starts the timer.
JoinEffect(c, loaded, connected) ==
    IF loaded /\ connected /\ ~joinSent[c]
    THEN /\ joinSent' = [joinSent EXCEPT ![c] = TRUE]
         /\ requestTimer' = [requestTimer EXCEPT ![c] = TRUE]
         /\ up' = [up EXCEPT ![c] = Append(@, Msg("join-design", c, "", None, NoLayer, <<>>, ""))]
    ELSE UNCHANGED <<joinSent, requestTimer, up>>

\* loadDesign: dispatch(setCurrentDesign(design)); the undo-redo effect sees the
\* cursor leave -1 and stays silent.
LoadDesign(c, ls) ==
    /\ ~design[c].loaded
    /\ design' = [design EXCEPT ![c] = setCurrentDesign(design[c], ls)]
    /\ prevHistoryIndexRef' = [prevHistoryIndexRef EXCEPT ![c] = 0]
    /\ JoinEffect(c, TRUE, isConnected[c])
    /\ UNCHANGED <<isConnected, down, rooms>>

\* addText / addImage / addShape: the reducer renumbers the payload object itself,
\* so the event carries the layer as it is stored.
AddLayer(c, id, z, v) ==
    LET s2 == addLayer(design[c], Layer(id, z, v))
    IN /\ design[c].loaded
       /\ Dispatch(c, s2, <<DesignUpdate(c, "add", id, s2.layers[Len(s2.layers)], <<>>)>>)

\* updateLayerFromFabricObject / handleUpdateLayer: the current layer with new values.
UpdateLayer(c, i, v) ==
    LET payload == [design[c].layers[i] EXCEPT !.val = v]
    IN /\ design[c].loaded
       /\ i \in 1..Len(design[c].layers)
       /\ Dispatch(c, updateLayer(design[c], payload),
                   <<DesignUpdate(c, "update", payload.id, payload, <<>>)>>)

\* handleDeleteLayer: broadcastChange sends the panel's rendered layers along.
DeleteLayer(c, id) ==
    /\ design[c].loaded
    /\ Dispatch(c, deleteLayer(design[c], id),
                <<DesignUpdate(c, "delete", id, NoLayer, design[c].layers)>>)

\* handleBringForward / handleSendBackward: `layers` is the array the panel rendered
\* with, that is the layers before the dispatch.
ReorderLayer(c, id, direction) ==
    /\ design[c].loaded
    /\ Dispatch(c, reorderLayer(design[c], id, direction),
                <<DesignUpdate(c, "reorder", id, NoLayer, design[c].layers)>>)

Undo(c) ==
    /\ design[c].loaded
    /\ Dispatch(c, undo(design[c]), <<>>)

Redo(c) ==
    /\ design[c].loaded
    /\ Dispatch(c, redo(design[c]), <<>>)

SelectLayer(c, id) ==
    /\ design[c].loaded
    /\ Dispatch(c, selectLayer(design[c], id), <<>>)

\* handleFinishRename: dispatches renameLayer when the trimmed name is not empty
\* and emits nothing itself.
RenameLayer(c, id, newName) ==
    /\ design[c].loaded
    /\ newName # ""
    /\ Dispatch(c, renameLayer(design[c], id, newName), <<>>)

\* A dispatch followed by a setTimeout(0) callback that emits: the undo-redo effect
\* of the re-render runs before the timer.
DispatchThen(c, s2, msgs) ==
    /\ design' = [design EXCEPT ![c] = s2]
    /\ up' = [up EXCEPT ![c] = @ \o UndoRedoEffect(c, s2) \o Broadcast(c, msgs)]
    /\ prevHistoryIndexRef' = [prevHistoryIndexRef EXCEPT ![c] = s2.historyIndex]
    /\ UNCHANGED <<isConnected, joinSent, requestTimer, down, rooms>>

\* handleToggleVisibility: the timer's callback finds the layer in the array the
\* panel rendered with (before the dispatch) and sends it with the flag inverted.
ToggleVisibility(c, id) ==
    LET i == FindIndex(design[c].layers, id)
        sent == [design[c].layers[i] EXCEPT !.visible = ~@]
    IN /\ design[c].loaded
       /\ i # 0
       /\ DispatchThen(c, toggleLayerVisibility(design[c], id),
                       <<DesignUpdate(c, "update", id, sent, <<>>)>>)

\* handleToggleLock: the same with the locked flag.
ToggleLock(c, id) ==
    LET i == FindIndex(design[c].layers, id)
        sent == [design[c].layers[i] EXCEPT !.locked = ~@]
    IN /\ design[c].loaded
       /\ i # 0
       /\ DispatchThen(c, toggleLayerLock(design[c], id),
                       <<DesignUpdate(c, "update", id, sent, <<>>)>>)

-----------------------------------------------------------------------------
(* Session: connect, join, state request (useSocket, EditorPage effects) *)

Connect(c) ==
    /\ ~isConnected[c]
    /\ isConnected' = [isConnected EXCEPT ![c] = TRUE]
    /\ JoinEffect(c, design[c].loaded, TRUE)
    /\ UNCHANGED <<design, prevHistoryIndexRef, down, rooms>>

\* The socket's 'disconnect' event: setIsConnected(false); the join effect's cleanup
\* emits leave-design, which socket.io-client keeps in its send buffer until the
\* socket is connected again; the pending request timer is not cleared. On the
\* server the socket has left its rooms.
Disconnect(c) ==
    /\ isConnected[c]
    /\ \A d \in Clients : up[d] = <<>> /\ down[d] = <<>>
    /\ isConnected' = [isConnected EXCEPT ![c] = FALSE]
    /\ joinSent' = [joinSent EXCEPT ![c] = FALSE]
    /\ up' = [up EXCEPT ![c] = IF joinSent[c]
                               THEN <<Msg("leave-design", c, "", None, NoLayer, <<>>, "")>>
                               ELSE <<>>]
    /\ rooms' = rooms \ {c}
    /\ UNCHANGED <<design, requestTimer, prevHistoryIndexRef, down>>

RequestCurrentState(c) ==
    /\ requestTimer[c]
    /\ requestTimer' = [requestTimer EXCEPT ![c] = FALSE]
    /\ up' = [up EXCEPT ![c] =
                 Append(@, Msg("request-current-state", c, "", None, NoLayer, <<>>, ""))]
    /\ UNCHANGED <<design, isConnected, joinSent, prevHistoryIndexRef, down, rooms>>

-----------------------------------------------------------------------------
(* Server: socket/handlers.ts *)

ToOthersTwice(c, m) ==
    [d \in Clients |-> IF d \in rooms /\ d # c THEN down[d] \o <<m, m>> ELSE down[d]]

\* socket.to(room).emit: every connection of the room but the sender.
ToOthers(c, m) ==
    [d \in Clients |-> IF d \in rooms /\ d # c THEN Append(down[d], m) ELSE down[d]]

\* io.to(room).emit: every connection of the room.
ToRoom(m) ==
    [d \in Clients |-> IF d \in rooms THEN Append(down[d], m) ELSE down[d]]

ServerTakes(c, type) ==
    /\ up[c] # <<>>
    /\ Head(up[c]).type = type
    /\ up' = [up EXCEPT ![c] = Tail(@)]
    /\ UNCHANGED <<design, isConnected, joinSent, requestTimer, prevHistoryIndexRef>>

ServerJoinDesign(c) ==
    /\ ServerTakes(c, "join-design")
    /\ rooms' = rooms \cup {c}
    /\ UNCHANGED down

ServerLeaveDesign(c) ==
    /\ ServerTakes(c, "leave-design")
    /\ rooms' = rooms \ {c}
    /\ UNCHANGED down

ServerDesignUpdate(c) ==
    /\ ServerTakes(c, "design-update")
    /\ down' = ToOthers(c, Head(up[c]))
    /\ UNCHANGED rooms

ServerRequestCurrentState(c) ==
    /\ ServerTakes(c, "request-current-state")
    /\ down' = ToOthers(c, Msg("state-request", "", "", None, NoLayer, <<>>, Head(up[c]).userId))
    /\ UNCHANGED rooms

ServerSendCurrentState(c) ==
    /\ ServerTakes(c, "send-current-state")
    /\ down' = ToRoom(Msg("receive-current-state", "", "", None, NoLayer,
                          Head(up[c]).layers, Head(up[c]).requestingUserId))
    /\ UNCHANGED rooms

-----------------------------------------------------------------------------
(* Remote reconciler: EditorPage's socket handlers *)

handleRemoteUpdateEcho(s, self, data) ==
    IF data.action = "add"
    THEN (IF data.layer # NoLayer THEN remoteAddLayer(s, data.layer) ELSE s)
    ELSE IF data.action = "update"
         THEN (IF data.layer # NoLayer THEN remoteUpdateLayer(s, data.layer) ELSE s)
    ELSE IF data.action = "delete"
         THEN (IF data.layerId # None THEN remoteDeleteLayer(s, data.layerId) ELSE s)
    ELSE IF data.action \in {"reorder", "undo-redo"}
         THEN remoteUpdateLayers(s, data.layers)
    ELSE s

handleRemoteUpdate(s, self, data) ==
    IF data.userId = self THEN s
    ELSE IF data.action = "add"
         THEN (IF data.layer # NoLayer THEN remoteAddLayer(s, data.layer) ELSE s)
    ELSE IF data.action = "update"
         THEN (IF data.layer # NoLayer THEN remoteUpdateLayer(s, data.layer) ELSE s)
    ELSE IF data.action = "delete"
         THEN (IF data.layerId # None THEN remoteDeleteLayer(s, data.layerId) ELSE s)
    ELSE IF data.action \in {"reorder", "undo-redo"}
         THEN remoteUpdateLayers(s, data.layers)
    ELSE s

handleReceiveStateRecording(s, self, data) ==
    IF data.requestingUserId # self THEN s
    ELSE SaveToHistory(remoteUpdateLayers(s, data.layers))

handleReceiveStateAny(s, self, data) == remoteUpdateLayers(s, data.layers)

handleReceiveState(s, self, data) ==
    IF data.requestingUserId # self THEN s
    ELSE remoteUpdateLayers(s, data.layers)

ClientTakes(c, type) ==
    /\ down[c] # <<>>
    /\ Head(down[c]).type = type
    /\ design[c].loaded /\ isConnected[c]
    /\ down' = [down EXCEPT ![c] = Tail(@)]
    /\ UNCHANGED <<isConnected, joinSent, requestTimer, rooms>>

\* A remote dispatch changes layers, not historyIndex: the undo-redo effect runs and
\* finds the cursor where it was.
HandleRemoteUpdate(c) ==
    LET s2 == handleRemoteUpdate(design[c], c, Head(down[c]))
    IN /\ ClientTakes(c, "design-update")
       /\ design' = [design EXCEPT ![c] = s2]
       /\ up' = [up EXCEPT ![c] = @ \o UndoRedoEffect(c, s2)]
       /\ prevHistoryIndexRef' = [prevHistoryIndexRef EXCEPT ![c] = s2.historyIndex]

HandleStateRequest(c) ==
    /\ ClientTakes(c, "state-request")
    /\ up' = [up EXCEPT ![c] =
                 IF Head(down[c]).requestingUserId = c THEN @
                 ELSE Append(@, Msg("send-current-state", c, "", None, NoLayer,
                                    design[c].layers, Head(down[c]).requestingUserId))]
    /\ UNCHANGED <<design, prevHistoryIndexRef>>

HandleReceiveState(c) ==
    LET s2 == handleReceiveState(design[c], c, Head(down[c]))
    IN /\ ClientTakes(c, "receive-current-state")
       /\ design' = [design EXCEPT ![c] = s2]
       /\ up' = [up EXCEPT ![c] = @ \o UndoRedoEffect(c, s2)]
       /\ prevHistoryIndexRef' = [prevHistoryIndexRef EXCEPT ![c] = s2.historyIndex]

-----------------------------------------------------------------------------
(* Bookkeeping shared by the specifications *)

PersistedLayers == <<Layer(Lid("p", 1), 0, 0)>>

\* The value a client writes: what tells one client's edit from the other's.
ValueOf(c) == IF c = "A" THEN 1 ELSE 2

TotalOps == ops["A"] + ops["B"]

soloVars == <<stamp, undone, branches, pureRun, trail, mark>>

\* Bookkeeping of a local operation of c that deleted the ids in del.
LocalOp(c, del) ==
    /\ ops' = [ops EXCEPT ![c] = @ + 1]
    /\ quiet' = [d \in Clients |-> FALSE]
    /\ deletedBy' = [deletedBy EXCEPT ![c] = @ \cup del]
    /\ UNCHANGED <<handshake, recovered, soloVars, last, presence, rest>>

Silent == UNCHANGED <<ops, handshake, quiet, recovered, deletedBy, soloVars, last, presence, rest>>

\* What a user does in the editor: the toolbar's buttons, the canvas, the panels.
UserEdits(c) ==
    \/ AddLayer(c, Lid(c, ops[c] + 1), Len(design[c].layers), ValueOf(c)) /\ LocalOp(c, {})
    \/ \E i \in 1..Len(design[c].layers) : UpdateLayer(c, i, ValueOf(c)) /\ LocalOp(c, {})
    \/ \E id \in Ids(design[c].layers) : DeleteLayer(c, id) /\ LocalOp(c, {id})
    \/ \E id \in Ids(design[c].layers), dir \in {"forward", "backward"} :
           ReorderLayer(c, id, dir) /\ LocalOp(c, {})
    \/ design[c].historyIndex > 0 /\ Undo(c) /\ LocalOp(c, {})
    \/ design[c].historyIndex < Len(design[c].history) - 1 /\ Redo(c) /\ LocalOp(c, {})

CollabLoad(c) ==
    /\ LoadDesign(c, PersistedLayers)
    /\ quiet' = [quiet EXCEPT ![c] = TRUE]
    /\ UNCHANGED <<ops, handshake, recovered, deletedBy, soloVars, last, presence, rest>>

CollabRequest(c) ==
    /\ RequestCurrentState(c)
    /\ handshake' = [handshake EXCEPT ![c] = "requested"]
    /\ UNCHANGED <<ops, quiet, recovered, deletedBy, soloVars, last, presence, rest>>

CollabRemoteUpdate(c) ==
    /\ HandleRemoteUpdate(c)
    /\ quiet' = [d \in Clients |-> FALSE]
    /\ UNCHANGED <<ops, handshake, recovered, deletedBy, soloVars, last, presence, rest>>

CollabReceiveState(c) ==
    /\ HandleReceiveState(c)
    /\ IF Head(down[c]).requestingUserId = c
       THEN /\ handshake' = [handshake EXCEPT ![c] = IF quiet[c] THEN "done" ELSE "disturbed"]
            /\ recovered' = [recovered EXCEPT ![c] = Ids(Head(down[c]).layers)]
       ELSE UNCHANGED <<handshake, recovered>>
    /\ UNCHANGED <<ops, quiet, deletedBy, soloVars, last, presence, rest>>

Relay(c) ==
    \/ ServerJoinDesign(c) /\ Silent
    \/ ServerDesignUpdate(c) /\ Silent
    \/ ServerRequestCurrentState(c) /\ Silent
    \/ ServerSendCurrentState(c) /\ Silent

NoMsg == Msg("", "", "", None, NoLayer, <<>>, "")

\* Nothing applied yet.
NoApplication == [op |-> "", id |-> None, arg |-> "", layer |-> NoLayer, data |-> NoMsg,
                  before |-> initialState, start |-> initialState, times |-> 0]

\* No request yet.
NoResponse == [method |-> "", id |-> 0, valid |-> TRUE, absent |-> FALSE,
               status |-> 0, code |-> ""]

Connections == {"P", "Q", "R"}
DesignIds == {"d1", "d2"}

\* new Map(): no entry.
NoUsers == [d \in {} |-> {}]

NewSocket == [state |-> "idle", userId |-> "", currentDesignId |-> "", rooms |-> {}]

Bookkeeping0 ==
    /\ handshake = [c \in Clients |-> "idle"]
    /\ quiet = [c \in Clients |-> FALSE]
    /\ recovered = [c \in Clients |-> {}]
    /\ deletedBy = [c \in Clients |-> {}]
    /\ stamp = 0
    /\ undone = 0
    /\ branches = 0
    /\ pureRun = TRUE
    /\ trail = 0
    /\ mark = Mark(initialState)
    /\ last = NoApplication
    /\ activeUsers = NoUsers
    /\ sockets = [c \in Connections |-> NewSocket]
    /\ inbox = [c \in Connections |-> <<>>]
    /\ events = <<>>
    /\ documents = {}
    /\ objectIds = 0
    /\ removed = {}
    /\ response = NoResponse

-----------------------------------------------------------------------------
(* The state after construction: pages mounted, nothing loaded, sockets not connected *)

Init ==
    /\ design = [c \in Clients |-> initialState]
    /\ isConnected = [c \in Clients |-> FALSE]
    /\ joinSent = [c \in Clients |-> FALSE]
    /\ requestTimer = [c \in Clients |-> FALSE]
    /\ prevHistoryIndexRef = [c \in Clients |-> -1]
    /\ up = [c \in Clients |-> <<>>]
    /\ down = [c \in Clients |-> <<>>]
    /\ rooms = {}
    /\ ops = [c \in Clients |-> 0]
    /\ Bookkeeping0

-----------------------------------------------------------------------------
(* SpecRoom: both clients have loaded the persisted design and joined its room *)
(* (their state requests are answered); they edit concurrently.              *)

InitRoom ==
    /\ design = [c \in Clients |-> setCurrentDesign(initialState, PersistedLayers)]
    /\ isConnected = [c \in Clients |-> TRUE]
    /\ joinSent = [c \in Clients |-> TRUE]
    /\ requestTimer = [c \in Clients |-> FALSE]
    /\ prevHistoryIndexRef = [c \in Clients |-> 0]
    /\ up = [c \in Clients |-> <<>>]
    /\ down = [c \in Clients |-> <<>>]
    /\ rooms = Clients
    /\ ops = [c \in Clients |-> 0]
    /\ Bookkeeping0

RoomNext ==
    \E c \in Clients :
        \/ TotalOps < MaxOps /\ UserEdits(c)
        \/ ServerDesignUpdate(c) /\ Silent
        \/ CollabRemoteUpdate(c)

SpecRoom == InitRoom /\ [][RoomNext]_vars

-----------------------------------------------------------------------------
(* SpecJoin: A is alone in the room and has made one edit it has not saved *)
(* (the event was relayed to nobody); B opens the same design and edits.   *)

Unsaved ==
    LET s == setCurrentDesign(initialState, PersistedLayers)
    IN {addLayer(s, Layer(Lid("A", 1), 1, ValueOf("A"))),
        updateLayer(s, Layer(Lid("p", 1), 0, ValueOf("A"))),
        deleteLayer(s, Lid("p", 1))}

InitJoin ==
    /\ \E s \in Unsaved : design = [c \in Clients |-> IF c = "A" THEN s ELSE initialState]
    /\ isConnected = [c \in Clients |-> c = "A"]
    /\ joinSent = [c \in Clients |-> c = "A"]
    /\ requestTimer = [c \in Clients |-> FALSE]
    /\ prevHistoryIndexRef = [c \in Clients |-> IF c = "A" THEN 1 ELSE -1]
    /\ up = [c \in Clients |-> <<>>]
    /\ down = [c \in Clients |-> <<>>]
    /\ rooms = {"A"}
    /\ ops = [c \in Clients |-> IF c = "A" THEN 1 ELSE 0]
    /\ Bookkeeping0

JoinNext ==
    \E c \in Clients :
        \/ CollabLoad(c)
        \/ Connect(c) /\ Silent
        \/ CollabRequest(c)
        \/ c = "B" /\ design[c].loaded /\ ops[c] < MaxJoinOps /\ UserEdits(c)
        \/ Relay(c)
        \/ CollabRemoteUpdate(c)
        \/ HandleStateRequest(c) /\ Silent
        \/ CollabReceiveState(c)

SpecJoin == InitJoin /\ [][JoinNext]_vars

-----------------------------------------------------------------------------
(* Spec: the design slice and the reconciler of one client, A, under every   *)
(* action that can be dispatched, with B standing for the remote participant *)

AbsentId == Lid("x", 0)

Designs == {<<>>, PersistedLayers}

RemoteLayer == Layer(Lid("B", 1), 1, ValueOf("B"))
RemoteArrays == {<<>>, PersistedLayers, <<RemoteLayer>>}

me == design["A"]

\* A local edit recorded a snapshot.
Recorded(s, s2) == s2.history # s.history \/ s2.historyIndex # s.historyIndex

Slice(s2) ==
    /\ design' = [design EXCEPT !["A"] = s2]
    /\ UNCHANGED <<net, prevHistoryIndexRef, handshake, quiet, recovered, deletedBy,
                   stamp, undone, branches, pureRun, last, presence, rest>>

LocalEdit(s2) ==
    /\ me.loaded
    /\ Slice(s2)
    /\ ops' = [ops EXCEPT !["A"] = @ + 1]
    /\ trail' = IF ~Recorded(me, s2) THEN 0 ELSE IF trail \in {1, 2} THEN 2 ELSE 1
    /\ mark' = IF Recorded(me, s2) THEN Mark(s2) ELSE mark

LocalOther(s2, t) ==
    /\ me.loaded
    /\ Slice(s2)
    /\ ops' = [ops EXCEPT !["A"] = @ + 1]
    /\ trail' = t
    /\ UNCHANGED mark

Remote(s2) ==
    /\ me.loaded
    /\ Slice(s2)
    /\ ops' = [ops EXCEPT !["B"] = @ + 1]
    /\ trail' = 0
    /\ UNCHANGED mark

SliceLoad(ls) ==
    /\ ~me.loaded
    /\ Slice(setCurrentDesign(me, ls))
    /\ UNCHANGED <<ops, trail, mark>>

SliceAdd(z) ==
    LocalEdit(addLayer(me, Layer(Lid("A", ops["A"] + 1), z, ValueOf("A"))))

SliceUpdate(id) ==
    LET i == FindIndex(me.layers, id)
    IN LocalEdit(updateLayer(me, IF i = 0 THEN Layer(id, 0, ValueOf("A"))
                                 ELSE [me.layers[i] EXCEPT !.val = ValueOf("A")]))

SliceDelete(id) == LocalEdit(deleteLayer(me, id))
SliceReorder(id, dir) == LocalEdit(reorderLayer(me, id, dir))
SliceRename(id, newName) == LocalEdit(renameLayer(me, id, newName))
SliceToggleVisibility(id) == LocalEdit(toggleLayerVisibility(me, id))
SliceToggleLock(id) == LocalEdit(toggleLayerLock(me, id))
SliceSelect(id) == LocalOther(selectLayer(me, id), 0)
SliceUndo == LocalOther(undo(me), IF trail = 2 THEN 3 ELSE 0)
SliceRedo == LocalOther(redo(me), IF trail = 3 THEN 4 ELSE 0)

SliceRemoteUpdate(data) == Remote(handleRemoteUpdate(me, "A", data))
SliceReceiveState(data) == Remote(handleReceiveState(me, "A", data))

RemoteUpdates ==
    {DesignUpdate(u, "add", l.id, l, <<>>) : u \in Clients, l \in {RemoteLayer, NoLayer}}
    \cup {DesignUpdate("B", "update", l.id, l, <<>>) :
             l \in {[me.layers[i] EXCEPT !.val = ValueOf("B")] : i \in 1..Len(me.layers)}
                   \cup {RemoteLayer}}
    \cup {DesignUpdate("B", "delete", id, NoLayer, <<>>) : id \in Ids(me.layers) \cup {None}}
    \cup {DesignUpdate("B", a, None, NoLayer, ls) :
             a \in {"reorder", "undo-redo"}, ls \in RemoteArrays}

StateResponses ==
    {Msg("receive-current-state", "", "", None, NoLayer, ls, u) :
       ls \in RemoteArrays, u \in Clients}

Targets == Ids(me.layers) \cup {AbsentId}

Next ==
    \/ \E ls \in Designs : SliceLoad(ls)
    \/ /\ TotalOps < MaxSoloOps
       /\ \/ \E z \in {-1, 0, Len(me.layers)} : SliceAdd(z)
          \/ \E id \in Targets : SliceUpdate(id)
          \/ \E id \in Targets : SliceDelete(id)
          \/ \E id \in Targets, dir \in {"forward", "backward"} : SliceReorder(id, dir)
          \/ \E id \in Targets, n \in {"", "Renamed"} : SliceRename(id, n)
          \/ \E id \in Targets : SliceToggleVisibility(id)
          \/ \E id \in Targets : SliceToggleLock(id)
          \/ \E id \in Ids(me.layers) \cup {None} : SliceSelect(id)
          \/ SliceUndo
          \/ SliceRedo
          \/ \E data \in RemoteUpdates : SliceRemoteUpdate(data)
          \/ \E data \in StateResponses : SliceReceiveState(data)

Spec == Init /\ [][Next]_vars

-----------------------------------------------------------------------------
(* SpecLayers: the slice under addLayer, deleteLayer and reorderLayer only, *)
(* from designs whose persisted zIndex values are any integers              *)

StoredDesigns ==
    {<<>>, PersistedLayers, <<Layer(Lid("p", 1), 2, 0), Layer(Lid("p", 2), 2, 0)>>}

LayersNext ==
    \/ \E ls \in StoredDesigns : SliceLoad(ls)
    \/ /\ TotalOps < MaxSoloOps
       /\ \/ \E z \in {-1, 0, Len(me.layers), Len(me.layers) + 3} : SliceAdd(z)
          \/ \E id \in Targets : SliceDelete(id)
          \/ \E id \in Targets, dir \in {"forward", "backward"} : SliceReorder(id, dir)

SpecLayers == Init /\ [][LayersNext]_vars

-----------------------------------------------------------------------------
(* SpecHist: one client edits an empty design well past the history's cap,  *)
(* undoes and redoes; the k-th edit is fixed by k and writes k as its value *)

AtTop == me.historyIndex = Len(me.history) - 1

History(s2) ==
    /\ me.loaded
    /\ design' = [design EXCEPT !["A"] = s2]
    /\ UNCHANGED <<net, prevHistoryIndexRef, ops, handshake, quiet, recovered, deletedBy,
                   trail, mark, last, presence, rest>>

HistEdit(s2) ==
    /\ stamp < MaxStamp
    /\ AtTop \/ branches < MaxBranches
    /\ History(s2)
    /\ stamp' = stamp + 1
    /\ undone' = 0
    /\ branches' = IF AtTop THEN branches ELSE branches + 1
    /\ pureRun' = (pureRun /\ undone = 0)

HistLoad ==
    /\ ~me.loaded
    /\ design' = [design EXCEPT !["A"] = setCurrentDesign(me, <<>>)]
    /\ UNCHANGED <<net, prevHistoryIndexRef, ops, handshake, quiet, recovered, deletedBy,
                   soloVars, last, presence, rest>>

HistAdd ==
    /\ Len(me.layers) = 0 \/ (Len(me.layers) = 1 /\ (stamp + 1) % 2 = 1)
    /\ HistEdit(addLayer(me, Layer(Lid("A", stamp + 1), Len(me.layers), stamp + 1)))

HistUpdate ==
    /\ Len(me.layers) >= 1
    /\ (stamp + 1) % 2 = 0
    /\ HistEdit(updateLayer(me, [me.layers[1] EXCEPT !.val = stamp + 1]))

HistDelete ==
    /\ Len(me.layers) >= 2
    /\ (stamp + 1) % 2 = 1
    /\ HistEdit(deleteLayer(me, me.layers[Len(me.layers)].id))

HistUndo ==
    /\ IF pureRun THEN undone <= MAX_HISTORY ELSE me.historyIndex > 0
    /\ History(undo(me))
    /\ undone' = IF pureRun THEN undone + 1 ELSE 0
    /\ UNCHANGED <<stamp, branches, pureRun>>

HistRedo ==
    /\ ~AtTop
    /\ History(redo(me))
    /\ undone' = 0
    /\ pureRun' = FALSE
    /\ UNCHANGED <<stamp, branches>>

HistRemote ==
    /\ branches < MaxBranches
    /\ Len(me.layers) >= 1
    /\ LET l == [me.layers[1] EXCEPT !.val = 0]
       IN History(handleRemoteUpdate(me, "A", DesignUpdate("B", "update", l.id, l, <<>>)))
    /\ undone' = 0
    /\ branches' = branches + 1
    /\ pureRun' = FALSE
    /\ UNCHANGED stamp

HistNext ==
    \/ HistLoad
    \/ HistAdd
    \/ HistUpdate
    \/ HistDelete
    \/ HistUndo
    \/ HistRedo
    \/ HistRemote

SpecHist == Init /\ [][HistNext]_vars

-----------------------------------------------------------------------------
(* SpecReducers: each reducer of the slice and each handler of the reconciler *)
(* applied to loaded designs with every kind of input, the application and   *)
(* the state before it being recorded                                        *)

LoadedDesigns ==
    {PersistedLayers,
     <<Layer(Lid("p", 1), 1, 0), Layer(Lid("p", 2), 0, 0)>>,
     <<Layer(Lid("p", 1), 0, 0), Layer(Lid("p", 2), 1, 0), Layer(Lid("p", 3), 2, 0)>>}

Apply(op, id, arg, layer, data, s2) ==
    LET again == /\ last.op = op /\ last.id = id /\ last.arg = arg
                 /\ last.layer = layer /\ last.data = data
    IN /\ me.loaded
       /\ design' = [design EXCEPT !["A"] = s2]
       /\ last' = [op |-> op, id |-> id, arg |-> arg, layer |-> layer, data |-> data,
                   before |-> me,
                   start |-> IF again THEN last.start ELSE me,
                   times |-> IF again THEN last.times + 1 ELSE 1]
       /\ ops' = [ops EXCEPT !["A"] = @ + 1]
       /\ UNCHANGED <<net, prevHistoryIndexRef, handshake, quiet, recovered, deletedBy,
                      soloVars, presence, rest>>

ReducerLoad(ls) ==
    /\ ~me.loaded
    /\ design' = [design EXCEPT !["A"] = setCurrentDesign(me, ls)]
    /\ UNCHANGED <<net, prevHistoryIndexRef, ops, handshake, quiet, recovered, deletedBy,
                   soloVars, last, presence, rest>>

ApplyAdd(id, z) ==
    LET payload == Layer(id, z, ValueOf("A"))
    IN Apply("addLayer", id, "", payload, NoMsg, addLayer(me, payload))

ApplyUpdate(id) ==
    LET i == FindIndex(me.layers, id)
        payload == IF i = 0 THEN Layer(id, 0, ValueOf("A"))
                   ELSE [me.layers[i] EXCEPT !.val = ValueOf("A")]
    IN Apply("updateLayer", id, "", payload, NoMsg, updateLayer(me, payload))

ApplyDelete(id) == Apply("deleteLayer", id, "", NoLayer, NoMsg, deleteLayer(me, id))

ApplyReorder(id, dir) ==
    Apply("reorderLayer", id, dir, NoLayer, NoMsg, reorderLayer(me, id, dir))

ApplyRename(id, n) == Apply("renameLayer", id, n, NoLayer, NoMsg, renameLayer(me, id, n))

ApplyToggleVisibility(id) ==
    Apply("toggleLayerVisibility", id, "", NoLayer, NoMsg, toggleLayerVisibility(me, id))

ApplyToggleLock(id) ==
    Apply("toggleLayerLock", id, "", NoLayer, NoMsg, toggleLayerLock(me, id))

ApplySelect(id) == Apply("selectLayer", id, "", NoLayer, NoMsg, selectLayer(me, id))
ApplyUndo == Apply("undo", None, "", NoLayer, NoMsg, undo(me))
ApplyRedo == Apply("redo", None, "", NoLayer, NoMsg, redo(me))

ApplyRemoteUpdate(data) ==
    Apply("handleRemoteUpdate", data.layerId, data.action, data.layer, data,
          handleRemoteUpdate(me, "A", data))

ApplyReceiveState(data) ==
    Apply("handleReceiveState", None, "", NoLayer, data, handleReceiveState(me, "A", data))

\* design-update events as they can arrive, the client's own among them.
AnyUpdates == {[d EXCEPT !.userId = u] : d \in RemoteUpdates, u \in Clients}

ReducersNext ==
    \/ \E ls \in LoadedDesigns : ReducerLoad(ls)
    \/ /\ ops["A"] < MaxReducerOps
       /\ \/ \E id \in Ids(me.layers) \cup {Lid("A", ops["A"] + 1)},
                z \in {-1, Len(me.layers)} : ApplyAdd(id, z)
          \/ \E id \in Targets : ApplyUpdate(id)
          \/ \E id \in Targets : ApplyDelete(id)
          \/ \E id \in Targets, dir \in {"forward", "backward"} : ApplyReorder(id, dir)
          \/ \E id \in Targets, n \in {"", "Renamed"} : ApplyRename(id, n)
          \/ \E id \in Targets : ApplyToggleVisibility(id)
          \/ \E id \in Targets : ApplyToggleLock(id)
          \/ \E id \in Ids(me.layers) \cup {None} : ApplySelect(id)
          \/ ApplyUndo
          \/ ApplyRedo
          \/ \E data \in AnyUpdates : ApplyRemoteUpdate(data)
          \/ \E data \in StateResponses : ApplyReceiveState(data)

SpecReducers == Init /\ [][ReducersNext]_vars

-----------------------------------------------------------------------------
(* SpecSend: A and B share a room and hold the same two layers; A has made  *)
(* nineteen edits (its history holds 20 snapshots), all relayed to B, whose *)
(* history holds the loaded snapshot. One of them performs an operation     *)
(* when the network is quiet, and the room relays it.                       *)

MaxSendOps == 2

SharedLayers == <<Layer(Lid("p", 1), 0, 0), Layer(Lid("p", 2), 1, 0)>>

RECURSIVE Edited(_, _)
Edited(s, n) ==
    IF n = 0 \/ ~s.loaded THEN s
    ELSE Edited(updateLayer(s, [s.layers[1] EXCEPT !.val = n % 2]), n - 1)

InitSend ==
    LET a == Edited(setCurrentDesign(initialState, SharedLayers), MAX_HISTORY - 1)
        b == remoteUpdateLayers(setCurrentDesign(initialState, SharedLayers), a.layers)
    IN /\ design = [c \in Clients |-> IF c = "A" THEN a ELSE b]
       /\ isConnected = [c \in Clients |-> TRUE]
       /\ joinSent = [c \in Clients |-> TRUE]
       /\ requestTimer = [c \in Clients |-> FALSE]
       /\ prevHistoryIndexRef = [c \in Clients |-> design[c].historyIndex]
       /\ up = [c \in Clients |-> <<>>]
       /\ down = [c \in Clients |-> <<>>]
       /\ rooms = Clients
       /\ ops = [c \in Clients |-> 0]
       /\ Bookkeeping0

\* Bookkeeping of the operation op performed by sender c.
Sent(c, op) ==
    /\ last' = [NoApplication EXCEPT
                   !.op = op, !.arg = c, !.before = design[c],
                   !.data.type = IF isConnected[c] THEN "connected" ELSE "disconnected"]
    /\ ops' = [ops EXCEPT ![c] = @ + 1]
    /\ UNCHANGED <<handshake, quiet, recovered, deletedBy, soloVars, presence, rest>>

\* The operations of the panels and the canvas, one at a time.
SenderEdits(c) ==
    \/ AddLayer(c, Lid(c, ops[c] + 1), Len(design[c].layers), ValueOf(c)) /\ Sent(c, "add")
    \/ \E i \in 1..Len(design[c].layers) :
           UpdateLayer(c, i, design[c].layers[i].val + 2) /\ Sent(c, "update")
    \/ \E id \in Ids(design[c].layers) : DeleteLayer(c, id) /\ Sent(c, "delete")
    \/ \E id \in Ids(design[c].layers), dir \in {"forward", "backward"} :
           ReorderLayer(c, id, dir) /\ Sent(c, "reorder")
    \/ \E id \in Ids(design[c].layers) : RenameLayer(c, id, "Title") /\ Sent(c, "rename")
    \/ \E id \in Ids(design[c].layers) : ToggleVisibility(c, id) /\ Sent(c, "toggleVisibility")
    \/ \E id \in Ids(design[c].layers) : ToggleLock(c, id) /\ Sent(c, "toggleLock")

SendNext ==
    \E c \in Clients :
        \/ /\ \A d \in Clients : up[d] = <<>> /\ down[d] = <<>>
           /\ TotalOps < MaxSendOps
           /\ SenderEdits(c)
        \/ ServerDesignUpdate(c) /\ Silent
        \/ CollabRemoteUpdate(c)

SpecSend == InitSend /\ [][SendNext]_vars

-----------------------------------------------------------------------------
(* SpecOffline: A and B have loaded the persisted design and joined its room; *)
(* A's connection drops when the network is quiet and comes back; A's user   *)
(* edits, undoes and redoes: at any time while disconnected, when the network *)
(* is quiet while connected; B answers state requests.                       *)

MaxOfflineOps == 2

OfflineEdits(c) ==
    \/ SenderEdits(c)
    \/ design[c].historyIndex > 0 /\ Undo(c) /\ Sent(c, "undo")
    \/ design[c].historyIndex < Len(design[c].history) - 1 /\ Redo(c) /\ Sent(c, "redo")

OfflineNext ==
    \E c \in Clients :
        \/ /\ c = "A" /\ ops[c] < MaxOfflineOps
           /\ isConnected[c] => \A d \in Clients : up[d] = <<>> /\ down[d] = <<>>
           /\ OfflineEdits(c)
        \/ c = "A" /\ Disconnect(c) /\ Silent
        \/ Connect(c) /\ Silent
        \/ RequestCurrentState(c) /\ Silent
        \/ isConnected[c] /\ Relay(c)
        \/ isConnected[c] /\ ServerLeaveDesign(c) /\ Silent
        \/ HandleRemoteUpdate(c) /\ Silent
        \/ HandleStateRequest(c) /\ Silent
        \/ HandleReceiveState(c) /\ Silent

SpecOffline == InitRoom /\ [][OfflineNext]_vars

-----------------------------------------------------------------------------
(* SpecRecord: a client that has edited its design (once, up to the cap of  *)
(* the history, past it) and perhaps undone twice applies local reducers,    *)
(* selections, undo and redo.                                                *)

MaxRecordOps == 2

RECURSIVE Rewound(_, _)
Rewound(s, k) == IF k = 0 \/ s.historyIndex <= 0 THEN s ELSE Rewound(undo(s), k - 1)

Prepared ==
    {Rewound(Edited(setCurrentDesign(initialState, SharedLayers), n), k) :
        n \in {1, MAX_HISTORY - 1, MAX_HISTORY + 1}, k \in {0, 2}}

InitRecord ==
    /\ design \in {[c \in Clients |-> IF c = "A" THEN s ELSE initialState] : s \in Prepared}
    /\ isConnected = [c \in Clients |-> FALSE]
    /\ joinSent = [c \in Clients |-> FALSE]
    /\ requestTimer = [c \in Clients |-> FALSE]
    /\ prevHistoryIndexRef = [c \in Clients |-> design[c].historyIndex]
    /\ up = [c \in Clients |-> <<>>]
    /\ down = [c \in Clients |-> <<>>]
    /\ rooms = {}
    /\ ops = [c \in Clients |-> 0]
    /\ Bookkeeping0

RecordNext ==
    /\ ops["A"] < MaxRecordOps
    /\ \/ \E z \in {-1, Len(me.layers)} : ApplyAdd(Lid("A", ops["A"] + 1), z)
       \/ \E id \in Targets : ApplyUpdate(id)
       \/ \E id \in Targets : ApplyDelete(id)
       \/ \E id \in Targets, dir \in {"forward", "backward"} : ApplyReorder(id, dir)
       \/ \E id \in Targets, n \in {"", "Renamed"} : ApplyRename(id, n)
       \/ \E id \in Targets : ApplyToggleVisibility(id)
       \/ \E id \in Targets : ApplyToggleLock(id)
       \/ \E id \in Ids(me.layers) \cup {None} : ApplySelect(id)
       \/ ApplyUndo
       \/ ApplyRedo

SpecRecord == InitRecord /\ [][RecordNext]_vars

-----------------------------------------------------------------------------
(* SpecServer: the socket server (socket/handlers.ts) with three connections *)
(* and two designs; clients connect, join, leave, send events, disconnect.   *)

MaxEvents == 3

\* The id a page generates for its session: one per connection.
UserId(c) == "user-" \o c

Bodies == {1}

\* Set.add / Set.delete on a JS Set, which keeps insertion order.
SetAdd(us, u) == IF \E i \in 1..Len(us) : us[i] = u THEN us ELSE Append(us, u)
SetDelete(us, u) == SelectSeq(us, LAMBDA x : x # u)

\* Array.from(activeUsers.get(designId) || [])
Users(au, d) == IF d \in DOMAIN au THEN au[d] ELSE <<>>

\* The socket.io room `design:${designId}`.
Room(d) == {c \in Connections : sockets[c].state = "open" /\ d \in sockets[c].rooms}

Evt(type, userId, designId, users, body) ==
    [type |-> type, userId |-> userId, designId |-> designId, users |-> users, body |-> body]

Event(type, c, d) == [type |-> type, conn |-> c, designId |-> d]

\* activeUsers.get(designId).delete(userId) and the removal of an empty entry.
DeleteUser(au, d, u) ==
    IF d \notin DOMAIN au THEN au
    ELSE IF SetDelete(au[d], u) = <<>>
         THEN [x \in DOMAIN au \ {d} |-> au[x]]
         ELSE [au EXCEPT ![d] = SetDelete(@, u)]

\* socket.to(room).emit(...) for each event of msgs, in order; own gets self.
Emit(c, d, msgs, self) ==
    inbox' = [o \in Connections |->
                 IF o = c THEN inbox[o] \o self
                 ELSE IF o \in Room(d) THEN inbox[o] \o msgs
                 ELSE inbox[o]]

Handled(type, c, d) ==
    /\ Len(events) < MaxEvents
    /\ sockets[c].state = "open"
    /\ events' = Append(events, Event(type, c, d))
    /\ UNCHANGED <<design, net, prevHistoryIndexRef, ops, handshake, quiet, recovered,
                   deletedBy, soloVars, last, rest>>

\* Connections are named in the order in which they arrive.
Earlier(c) == IF c = "P" THEN {} ELSE IF c = "Q" THEN {"P"} ELSE {"P", "Q"}

OnConnection(c) ==
    /\ sockets[c].state = "idle"
    /\ \A e \in Earlier(c) : sockets[e].state # "idle"
    /\ sockets' = [sockets EXCEPT ![c].state = "open"]
    /\ UNCHANGED <<design, net, prevHistoryIndexRef, ops, handshake, quiet, recovered,
                   deletedBy, soloVars, last, activeUsers, inbox, events, rest>>

\* io.to(room).emit(...): every connection of the room, the sender included.
EmitToAll(c, d, msgs, self) ==
    inbox' = [o \in Connections |->
                 IF o \in Room(d) \cup {c} THEN inbox[o] \o msgs \o self ELSE inbox[o]]

OnJoinDesignToAll(c, d) ==
    LET u == UserId(c)
        au2 == [x \in DOMAIN activeUsers \cup {d} |->
                   IF x = d THEN SetAdd(Users(activeUsers, d), u) ELSE activeUsers[x]]
        roster == Evt("active-users", "", d, Users(au2, d), 0)
    IN /\ Handled("join-design", c, d)
       /\ sockets' = [sockets EXCEPT ![c].rooms = @ \cup {d}, ![c].userId = u,
                                     ![c].currentDesignId = d]
       /\ activeUsers' = au2
       /\ EmitToAll(c, d, <<Evt("user-joined", u, "", <<>>, 0), roster>>, <<>>)

OnJoinDesign(c, d) ==
    LET u == UserId(c)
        au2 == [x \in DOMAIN activeUsers \cup {d} |->
                   IF x = d THEN SetAdd(Users(activeUsers, d), u) ELSE activeUsers[x]]
        roster == Evt("active-users", "", d, Users(au2, d), 0)
    IN /\ Handled("join-design", c, d)
       /\ sockets' = [sockets EXCEPT ![c].rooms = @ \cup {d}, ![c].userId = u,
                                     ![c].currentDesignId = d]
       /\ activeUsers' = au2
       /\ Emit(c, d, <<Evt("user-joined", u, "", <<>>, 0), roster>>, <<roster>>)

OnLeaveDesign(c, d) ==
    LET u == UserId(c)
        au2 == DeleteUser(activeUsers, d, u)
    IN /\ Handled("leave-design", c, d)
       /\ d \in sockets[c].rooms
       /\ sockets' = [sockets EXCEPT ![c].rooms = @ \ {d}]
       /\ activeUsers' = au2
       /\ Emit(c, d, <<Evt("active-users", "", d, Users(au2, d), 0),
                       Evt("user-left", u, "", <<>>, 0)>>, <<>>)

OnDesignUpdateToAll(c, d, body) ==
    /\ Handled("design-update", c, d)
    /\ EmitToAll(c, d, <<Evt("design-update", UserId(c), "", <<>>, body)>>, <<>>)
    /\ UNCHANGED <<activeUsers, sockets>>

OnDesignUpdate(c, d, body) ==
    /\ Handled("design-update", c, d)
    /\ Emit(c, d, <<Evt("design-update", UserId(c), "", <<>>, body)>>, <<>>)
    /\ UNCHANGED <<activeUsers, sockets>>

OnCursorPosition(c, d, body) ==
    /\ Handled("cursor-position", c, d)
    /\ Emit(c, d, <<Evt("cursor-position", UserId(c), "", <<>>, body)>>, <<>>)
    /\ UNCHANGED <<activeUsers, sockets>>

OnCommentAdded(c, d, body) ==
    /\ Handled("comment-added", c, d)
    /\ Emit(c, d, <<Evt("new-comment", "", d, <<>>, body)>>, <<>>)
    /\ UNCHANGED <<activeUsers, sockets>>

\* The socket has left its rooms when 'disconnect' fires; the handler knows the
\* userId and the design of the last join-design only.
OnDisconnect(c) ==
    LET u == sockets[c].userId
        d == sockets[c].currentDesignId
        au2 == DeleteUser(activeUsers, d, u)
    IN /\ Handled("disconnect", c, d)
       /\ sockets' = [sockets EXCEPT ![c].state = "closed", ![c].rooms = {}]
       /\ IF d # "" /\ u # ""
          THEN /\ activeUsers' = au2
               /\ Emit(c, d, <<Evt("active-users", "", d, Users(au2, d), 0),
                               Evt("user-left", u, "", <<>>, 0)>>, <<>>)
          ELSE UNCHANGED <<activeUsers, inbox>>

ServerNext ==
    \E c \in Connections :
        \/ OnConnection(c)
        \/ \E d \in DesignIds : OnJoinDesign(c, d)
        \/ \E d \in DesignIds : OnLeaveDesign(c, d)
        \/ \E d \in DesignIds, body \in Bodies : OnDesignUpdate(c, d, body)
        \/ \E d \in DesignIds, body \in Bodies : OnCursorPosition(c, d, body)
        \/ \E d \in DesignIds, body \in Bodies : OnCommentAdded(c, d, body)
        \/ OnDisconnect(c)

SpecServer == Init /\ [][ServerNext]_vars

-----------------------------------------------------------------------------
(* Two participants at the layers panel: selection, locks, adds, undo *)

MaxPanelOps == 3

\* The panel's row: onClick={() => !layer.locked && handleSelectLayer(layer.id)}.
PanelSelect(c, id) ==
    LET i == FindIndex(design[c].layers, id)
    IN /\ i # 0
       /\ ~design[c].layers[i].locked
       /\ SelectLayer(c, id)

\* A joined first; B has just joined and its request timer is pending.
InitPanel ==
    /\ design = [c \in Clients |-> setCurrentDesign(initialState, SharedLayers)]
    /\ isConnected = [c \in Clients |-> TRUE]
    /\ joinSent = [c \in Clients |-> TRUE]
    /\ requestTimer = [c \in Clients |-> c = "B"]
    /\ prevHistoryIndexRef = [c \in Clients |-> 0]
    /\ up = [c \in Clients |-> <<>>]
    /\ down = [c \in Clients |-> <<>>]
    /\ rooms = Clients
    /\ ops = [c \in Clients |-> 0]
    /\ Bookkeeping0

PanelEdits(c) ==
    \/ \E id \in Ids(design[c].layers) : PanelSelect(c, id) /\ Sent(c, "select")
    \/ \E id \in Ids(design[c].layers) : ToggleLock(c, id) /\ Sent(c, "toggleLock")
    \/ AddLayer(c, Lid(c, ops[c] + 1), Len(design[c].layers), ValueOf(c)) /\ Sent(c, "add")
    \/ \E id \in Ids(design[c].layers) : DeleteLayer(c, id) /\ Sent(c, "delete")
    \/ design[c].historyIndex > 0 /\ Undo(c) /\ Sent(c, "undo")
    \/ design[c].historyIndex < Len(design[c].history) - 1 /\ Redo(c) /\ Sent(c, "redo")

PanelNext ==
    \E c \in Clients :
        \/ TotalOps < MaxPanelOps /\ PanelEdits(c)
        \/ ServerDesignUpdate(c) /\ Silent
        \/ HandleRemoteUpdate(c) /\ Silent

SpecPanel == InitPanel /\ [][PanelNext]_vars

-----------------------------------------------------------------------------
(* Two participants adding layers while one of them recovers the state *)

MaxAddOps == 3

AddEdits(c) ==
    \/ AddLayer(c, Lid(c, ops[c] + 1), Len(design[c].layers), ValueOf(c)) /\ Sent(c, "add")
    \/ design[c].historyIndex > 0 /\ Undo(c) /\ Sent(c, "undo")
    \/ design[c].historyIndex < Len(design[c].history) - 1 /\ Redo(c) /\ Sent(c, "redo")

AddsNext ==
    \E c \in Clients :
        \/ TotalOps < MaxAddOps /\ AddEdits(c)
        \/ RequestCurrentState(c) /\ Silent
        \/ ServerDesignUpdate(c) /\ Silent
        \/ ServerRequestCurrentState(c) /\ Silent
        \/ ServerSendCurrentState(c) /\ Silent
        \/ HandleRemoteUpdate(c) /\ Silent
        \/ HandleStateRequest(c) /\ Silent
        \/ HandleReceiveState(c) /\ Silent

SpecAdds == InitPanel /\ [][AddsNext]_vars

-----------------------------------------------------------------------------
(* REST API of the designs: routes, validation, controller, error handler *)

MaxDesigns == 3

\* The n-th ObjectId the driver generates is n; 0 stands for a string that is
\* not 24 hexadecimal digits.
WellFormedIds == 1..(MaxDesigns + 1)
RequestIds == {0} \cup WellFormedIds

\* validate(schema): a request the schema rejects goes to the error handler as
\* a ZodError, any other one to the controller.
validate(paramsOk, bodyOk) ==
    IF paramsOk /\ bodyOk THEN [name |-> "next", code |-> "", statusCode |-> 0]
    ELSE [name |-> "ZodError", code |-> "", statusCode |-> 0]

AppError(code, statusCode) == [name |-> "AppError", code |-> code, statusCode |-> statusCode]

errorHandler(err) ==
    IF err.name = "ZodError" THEN [status |-> 400, code |-> "VALIDATION_ERROR"]
    ELSE IF err.name = "AppError" THEN [status |-> err.statusCode, code |-> err.code]
    ELSE IF err.name = "CastError" THEN [status |-> 400, code |-> "INVALID_ID"]
    ELSE [status |-> 500, code |-> "INTERNAL_SERVER_ERROR"]

Success(status) == [status |-> status, code |-> ""]

\* Bookkeeping of a request: what was asked, whether the id was deleted or never
\* created when it was asked, and the answer.
Responds(method, id, valid, r) ==
    /\ response' = [method |-> method, id |-> id, valid |-> valid,
                    absent |-> id \in removed \/ id > objectIds,
                    status |-> r.status, code |-> r.code]
    /\ UNCHANGED <<design, net, prevHistoryIndexRef, ops, handshake, quiet, recovered,
                   deletedBy, soloVars, last, presence>>

\* POST /api/designs: new Design(...).save() stores it under a new ObjectId.
createDesign(bodyOk) ==
    LET v == validate(TRUE, bodyOk)
    IN IF v.name # "next"
       THEN /\ Responds("POST", 0, bodyOk, errorHandler(v))
            /\ UNCHANGED <<documents, objectIds, removed>>
       ELSE /\ objectIds < MaxDesigns
            /\ objectIds' = objectIds + 1
            /\ documents' = documents \cup {objectIds + 1}
            /\ Responds("POST", objectIds + 1, bodyOk, Success(201))
            /\ UNCHANGED removed

\* GET /api/designs/:id: Design.findById(id).
getDesign(id) ==
    LET v == validate(id \in WellFormedIds, TRUE)
    IN /\ Responds("GET", id, TRUE,
                   IF v.name # "next" THEN errorHandler(v)
                   ELSE IF id \notin documents
                        THEN errorHandler(AppError("DESIGN_NOT_FOUND", 404))
                   ELSE Success(200))
       /\ UNCHANGED <<documents, objectIds, removed>>

\* PUT /api/designs/:id: Design.findByIdAndUpdate(id, {$set: body}, ...).
updateDesign(id, bodyOk) ==
    LET v == validate(id \in WellFormedIds, bodyOk)
    IN /\ Responds("PUT", id, bodyOk,
                   IF v.name # "next" THEN errorHandler(v)
                   ELSE IF id \notin documents
                        THEN errorHandler(AppError("DESIGN_NOT_FOUND", 404))
                   ELSE Success(200))
       /\ UNCHANGED <<documents, objectIds, removed>>

deleteDesignKeep(id) ==
    LET v == validate(id \in WellFormedIds, TRUE)
        found == v.name = "next" /\ id \in documents
    IN /\ Responds("DELETE", id, TRUE,
                   IF v.name # "next" THEN errorHandler(v)
                   ELSE IF id \notin documents
                        THEN errorHandler(AppError("DESIGN_NOT_FOUND", 404))
                   ELSE Success(200))
       /\ removed' = IF found THEN removed \cup {id} ELSE removed
       /\ UNCHANGED <<documents, objectIds>>

\* DELETE /api/designs/:id: Design.findByIdAndDelete(id).
deleteDesign(id) ==
    LET v == validate(id \in WellFormedIds, TRUE)
        found == v.name = "next" /\ id \in documents
    IN /\ Responds("DELETE", id, TRUE,
                   IF v.name # "next" THEN errorHandler(v)
                   ELSE IF id \notin documents
                        THEN errorHandler(AppError("DESIGN_NOT_FOUND", 404))
                   ELSE Success(200))
       /\ documents' = IF found THEN documents \ {id} ELSE documents
       /\ removed' = IF found THEN removed \cup {id} ELSE removed
       /\ UNCHANGED objectIds

RestNext ==
    \/ \E bodyOk \in BOOLEAN : createDesign(bodyOk)
    \/ \E id \in RequestIds : getDesign(id)
    \/ \E id \in RequestIds, bodyOk \in BOOLEAN : updateDesign(id, bodyOk)
    \/ \E id \in RequestIds : deleteDesign(id)

SpecRest == Init /\ [][RestNext]_vars

-----------------------------------------------------------------------------
(* Properties of the room (SpecRoom) *)

Settled == \A c \in Clients : up[c] = <<>> /\ down[c] = <<>>

\* C1: once every relayed design-update has been delivered and applied, all
\* clients of the room hold identical layer collections.
C1_Convergence == Settled => design["A"].layers = design["B"].layers

\* A step in which c's user undoes.
UndoStep(c) ==
    /\ ops'[c] = ops[c] + 1
    /\ design'[c].historyIndex = design[c].historyIndex - 1

\* The layers of the other participant that c received after the snapshot at
\* its cursor was recorded.
ReceivedSince(c) ==
    {id \in Ids(design[c].layers) :
        /\ Owner(id) = Other(c)
        /\ id \notin Ids(design[c].history[design[c].historyIndex + 1].layers)}

\* C3: a local undo() never reverts another user's work: a layer added by the
\* other participant and applied after the snapshot at the cursor was recorded
\* is still in the local layers after the undo.
C3_UndoKeepsRemoteWork ==
    [][\A c \in Clients :
          UndoStep(c) => ReceivedSince(c) \subseteq Ids(design'[c].layers)]_vars

\* C10: in every reachable client state the zIndex values of the layers are
\* exactly 0..n-1, without gaps or duplicates.
C10_DenseAlways == \A c \in Clients : Dense(design[c].layers)

-----------------------------------------------------------------------------
(* Properties of the late join (SpecJoin) *)

\* C4: after B has completed the state-recovery handshake, A keeps every layer
\* of the recovered state U that B did not itself delete, whatever B edits,
\* undoes and redoes afterwards.
C4_JoinerKeepsPeerWork ==
    handshake["B"] = "done" =>
        (recovered["B"] \ deletedBy["B"]) \subseteq Ids(design["A"].layers)

\* C5: when B joins A's room and no edit occurs during the handshake, then
\* after A's state response has been applied B's layers equal A's layers S and
\* B's history is still exactly its one initial snapshot, with the cursor at 0.
C5_LateJoin ==
    (handshake["B"] = "done" /\ quiet["B"]) =>
        /\ design["B"].layers = design["A"].layers
        /\ design["B"].history = <<[layers |-> PersistedLayers, selectedLayerId |-> None]>>
        /\ design["B"].historyIndex = 0

C5_Witness ==
    /\ handshake["B"] = "done"
    /\ quiet["B"]
    /\ design["A"].layers # PersistedLayers
    /\ design["B"].layers = design["A"].layers

-----------------------------------------------------------------------------
(* Properties of the slice (Spec) *)

\* C2: applying a remote event (a design-update of any action, or a state
\* response) leaves history and historyIndex unchanged.
C2_RemoteKeepsHistory ==
    [][ops'["B"] # ops["B"] =>
          /\ design'["A"].history = design["A"].history
          /\ design'["A"].historyIndex = design["A"].historyIndex]_vars

C2_Witness ==
    /\ ops["B"] > 0
    /\ me.historyIndex > 0
    /\ me.layers # me.history[me.historyIndex + 1].layers

\* C7: after two consecutive local edits, the second producing s2, undo()
\* followed by redo() yields the layers and the selection of s2 and the cursor
\* of before the undo.
C7_UndoRedo ==
    trail = 4 =>
        /\ me.layers = mark.layers
        /\ me.selectedLayerId = mark.selectedLayerId
        /\ me.historyIndex = mark.historyIndex

C7_Witness == trail = 4 /\ me.historyIndex >= 2 /\ me.layers # <<>>

-----------------------------------------------------------------------------
(* Properties of the layer order (SpecLayers) *)

\* C9: after any sequence of local addLayer (with any zIndex on the new
\* layer), deleteLayer and reorderLayer operations on a loaded design, the
\* zIndex values of the layers are exactly 0..n-1 without duplicates.
C9_DenseAfterLayerOps == (me.loaded /\ ops["A"] > 0) => Dense(me.layers)

C9_Witness ==
    /\ ops["A"] >= MaxSoloOps
    /\ Len(me.layers) >= 3
    /\ me.layers[1].id = Lid("A", 3)

-----------------------------------------------------------------------------
(* Properties of the history (SpecHist) *)

\* C6: once a design is loaded, 1 <= len(history) <= 20 and
\* 0 <= historyIndex < len(history), whatever is edited, undone, redone or
\* received.
C6_HistoryBounds ==
    me.loaded =>
        /\ 1 <= Len(me.history)
        /\ Len(me.history) <= 20
        /\ 0 <= me.historyIndex
        /\ me.historyIndex < Len(me.history)

C6_Witness ==
    /\ stamp > MAX_HISTORY
    /\ branches > 0
    /\ Len(me.history) = MAX_HISTORY
    /\ me.historyIndex = MAX_HISTORY - 1

\* The layers after the first k edits of the scenario.
LayersAfter(k) ==
    LET first == Layer(Lid("A", 1), 0, IF k = 1 THEN 1 ELSE 2 * (k \div 2))
        j == IF k % 4 = 3 THEN k ELSE k - 1
    IN IF k = 0 THEN <<>>
       ELSE IF k >= 3 /\ k % 4 \in {3, 0} THEN <<first, Layer(Lid("A", j), 1, j)>>
       ELSE <<first>>

Back == IF undone < MAX_HISTORY - 1 THEN undone ELSE MAX_HISTORY - 1

\* C8: after N > 19 consecutive edits of an empty design the history holds
\* exactly 20 snapshots, the states after the last 20 edits, with the cursor on
\* the last one; each of the next 19 undo() calls steps one snapshot back, down
\* to the oldest retained one, and every further undo() changes nothing.
C8_HistoryCap ==
    (pureRun /\ stamp > 19) =>
        /\ Len(me.history) = 20
        /\ \A i \in 1..20 :
               me.history[i] = [layers |-> LayersAfter(stamp - 20 + i),
                                selectedLayerId |-> None]
        /\ me.historyIndex = 19 - Back
        /\ me.layers = LayersAfter(stamp - Back)

C8_Witness == pureRun /\ stamp > MAX_HISTORY /\ undone > MAX_HISTORY

-----------------------------------------------------------------------------
(* Properties of single reducer applications (SpecReducers) *)

\* C11: addLayer with a layer whose id is already in the layer collection is
\* rejected: layers, selection and history stay as they were.
C11_DuplicateAddRejected ==
    (last.op = "addLayer" /\ last.id \in Ids(last.before.layers)) => me = last.before

AsSet(ls) == {ls[i] : i \in 1..Len(ls)}

\* reorderLayer was applied to a dense collection holding the layer.
ReorderCase ==
    /\ last.op = "reorderLayer"
    /\ last.id \in Ids(last.before.layers)
    /\ Dense(last.before.layers)
    /\ Cardinality(Ids(last.before.layers)) = Len(last.before.layers)

ReorderFrom == last.before.layers[FindIndex(last.before.layers, last.id)].zIndex
ReorderTo == IF last.arg = "forward" THEN ReorderFrom + 1 ELSE ReorderFrom - 1
ReorderAtBoundary == ReorderTo \notin 0..(Len(last.before.layers) - 1)

\* The layers of before the reorder, the moved layer and its neighbour having
\* exchanged their zIndex.
Exchanged ==
    {IF l.id = last.id THEN [l EXCEPT !.zIndex = ReorderTo]
     ELSE IF l.zIndex = ReorderTo THEN [l EXCEPT !.zIndex = ReorderFrom]
     ELSE l : l \in AsSet(last.before.layers)}

C14_OwnEventIgnored ==
    (last.op = "handleRemoteUpdate" /\ last.data.userId = "A") => me = last.before

C14_Witness ==
    /\ last.op = "handleRemoteUpdate"
    /\ last.data.userId = "A"
    /\ last.data.action = "undo-redo"
    /\ last.data.layers # me.layers
    /\ me.historyIndex > 0

\* C19: toggleLayerVisibility applied twice to a present layer gives back the
\* layer collection of before the first application, in every field of every
\* layer.
C19_ToggleTwice ==
    (/\ last.op = "toggleLayerVisibility"
     /\ last.times = 2
     /\ last.id \in Ids(last.start.layers)) => me.layers = last.start.layers

C19_Witness ==
    /\ last.op = "toggleLayerVisibility"
    /\ last.times = 2
    /\ last.id \in Ids(last.start.layers)
    /\ last.before.layers # last.start.layers
    /\ Len(me.layers) = 3

-----------------------------------------------------------------------------
(* Properties of propagation (SpecSend) *)

\* C13: once the room has relayed what a connected sender emitted for a local
\* operation and the peer has applied it, the peer's layers equal the sender's
\* layers after the operation, also for a sender whose history holds 20 snapshots.
C13_Propagated ==
    (Settled /\ last.op # "") =>
        design[Other(last.arg)].layers = design[last.arg].layers

-----------------------------------------------------------------------------
(* Properties of the socket server (SpecServer) *)

AsUserSet(us) == {us[i] : i \in 1..Len(us)}

\* The participants whose connection is in the design's room.
Joined(d) == {UserId(c) : c \in Room(d)}

\* C15: the membership map has an entry for a design exactly when a participant
\* is joined to it, the entry is never empty, and it holds exactly the
\* participants that joined and have not left or disconnected since.
C15_MembershipExact ==
    \A d \in DesignIds :
        /\ d \in DOMAIN activeUsers <=> Joined(d) # {}
        /\ d \in DOMAIN activeUsers =>
               activeUsers[d] # <<>> /\ AsUserSet(activeUsers[d]) = Joined(d)

\* C16: the participant id of a closed connection is in no membership set,
\* whether or not it sent leave-design and however many rooms it had joined.
C16_ClosedIsAbsent ==
    \A c \in Connections :
        sockets[c].state = "closed" =>
            \A d \in DOMAIN activeUsers : UserId(c) \notin AsUserSet(activeUsers[d])

Roster(d, us) == Evt("active-users", "", d, us, 0)

PresenceScript(p, q, d) ==
    <<Event("join-design", p, d), Event("join-design", q, d), Event("disconnect", q, d)>>

\* C17: p joins an empty room and gets the roster {p}; q joins, both get the
\* roster {p, q} and only p gets user-joined{q}; q disconnects, p gets the
\* roster {p} and user-left{q}, and the room's entry is still stored.
C17_PresenceScenario ==
    \A p \in Connections : \A q \in Connections \ {p}, d \in DesignIds :
        LET up1 == <<UserId(p)>>
            up2 == <<UserId(p), UserId(q)>>
            atP == <<Roster(d, up1), Evt("user-joined", UserId(q), "", <<>>, 0), Roster(d, up2),
                     Roster(d, up1), Evt("user-left", UserId(q), "", <<>>, 0)>>
        IN /\ events = SubSeq(PresenceScript(p, q, d), 1, 1) =>
                  /\ Users(activeUsers, d) = up1
                  /\ inbox[p] = SubSeq(atP, 1, 1)
           /\ events = SubSeq(PresenceScript(p, q, d), 1, 2) =>
                  /\ Users(activeUsers, d) = up2
                  /\ inbox[p] = SubSeq(atP, 1, 3)
                  /\ inbox[q] = <<Roster(d, up2)>>
           /\ events = PresenceScript(p, q, d) =>
                  /\ d \in DOMAIN activeUsers
                  /\ activeUsers[d] = up1
                  /\ inbox[p] = atP
                  /\ inbox[q] = <<Roster(d, up2)>>

C17_Witness ==
    /\ events = PresenceScript("P", "Q", "d1")
    /\ sockets["R"].state = "open"
    /\ Len(inbox["P"]) = 5
    /\ inbox["R"] = <<>>

Relayed(type) == IF type = "comment-added" THEN "new-comment" ELSE type

\* C18: handling a design-update, cursor-position or comment event appends the
\* event once to the inbox of every connection of the design's room but the
\* sender, to no other inbox, and leaves the membership state as it was.
C18_RelayToOthers ==
    [][\A c \in Connections, d \in DesignIds,
         type \in {"design-update", "cursor-position", "comment-added"} :
          events' = Append(events, Event(type, c, d)) =>
              /\ activeUsers' = activeUsers
              /\ sockets' = sockets
              /\ \A o \in Connections :
                     IF o \in Room(d) \ {c}
                     THEN /\ Len(inbox'[o]) = Len(inbox[o]) + 1
                          /\ SubSeq(inbox'[o], 1, Len(inbox[o])) = inbox[o]
                          /\ inbox'[o][Len(inbox'[o])].type = Relayed(type)
                     ELSE inbox'[o] = inbox[o]]_vars

C18_Witness ==
    /\ events = <<Event("join-design", "P", "d1"), Event("join-design", "Q", "d1"),
                  Event("design-update", "P", "d1")>>
    /\ sockets["R"].state = "open"
    /\ inbox["Q"][Len(inbox["Q"])].type = "design-update"
    /\ inbox["P"][Len(inbox["P"])].type = "active-users"
    /\ inbox["R"] = <<>>

-----------------------------------------------------------------------------
(* Properties of disconnected editing (SpecOffline) *)

DesignUpdates(q) == Len(SelectSeq(q, LAMBDA m : m.type = "design-update"))

\* C20: a design-update is emitted only by a local operation of a connected
\* client: an edit made while disconnected emits none, and neither the
\* reconnection nor anything that follows it emits one on its behalf.
C20_OfflineSilent ==
    [][\A c \in Clients :
          DesignUpdates(up'[c]) > DesignUpdates(up[c]) =>
              isConnected[c] /\ ops'[c] = ops[c] + 1]_vars

C20_Witness ==
    /\ last.op = "update"
    /\ last.arg = "A"
    /\ last.data.type = "disconnected"
    /\ design["A"].layers # last.before.layers
    /\ isConnected["A"]
    /\ "A" \in rooms
    /\ ~requestTimer["A"]
    /\ Settled

-----------------------------------------------------------------------------
(* Properties of snapshot recording (SpecRecord) *)

\* The last application is a local edit of the kinds that record a snapshot.
Recording ==
    \/ last.op \in {"addLayer", "deleteLayer"}
    \/ /\ last.op \in {"updateLayer", "reorderLayer", "toggleLayerVisibility",
                        "toggleLayerLock"}
       /\ last.id \in Ids(last.before.layers)
    \/ /\ last.op = "renameLayer"
       /\ last.id \in Ids(last.before.layers)
       /\ last.arg # ""

\* The history before the edit up to its cursor, then the resulting state.
Pushed == Append(SubSeq(last.before.history, 1, last.before.historyIndex + 1), Snapshot(me))

\* C22: a recording local edit drops the snapshots after the cursor, appends
\* the resulting {layers, selectedLayerId} and leaves the cursor on it; a 21st
\* entry evicts the oldest and the cursor stays at 19; redo() is then a no-op.
C22_RecordSnapshot ==
    Recording =>
        /\ me.history = IF Len(Pushed) > MAX_HISTORY THEN Tail(Pushed) ELSE Pushed
        /\ me.historyIndex = Len(me.history) - 1
        /\ Len(Pushed) > MAX_HISTORY => me.historyIndex = MAX_HISTORY - 1
        /\ redo(me) = me

C22_Witness ==
    /\ Recording
    /\ last.op = "toggleLayerLock"
    /\ Len(last.before.history) = MAX_HISTORY
    /\ last.before.historyIndex = MAX_HISTORY - 1
    /\ me.historyIndex = MAX_HISTORY - 1
    /\ me.history[1] = last.before.history[2]
    /\ me.history[MAX_HISTORY] # last.before.history[MAX_HISTORY]

\* The last application is a local operation on an id the layers do not hold,
\* or a reorder at the end of the stack.
NoOpByDesign ==
    \/ /\ last.op \in {"updateLayer", "deleteLayer", "reorderLayer", "renameLayer",
                        "toggleLayerVisibility", "toggleLayerLock"}
       /\ last.id \notin Ids(last.before.layers)
    \/ ReorderCase /\ ReorderAtBoundary

\* C23: a local operation on an absent id, or a reorder at the boundary, leaves
\* layers, selectedLayerId, the history and its cursor as they were.
C23_NoOpFrame == NoOpByDesign => me = last.before

-----------------------------------------------------------------------------
(* Properties of the events sent (SpecSend) *)

\* C24: the layers array of the reorder event a sender has just emitted equals
\* the sender's layers after its reorderLayer, and a peer applying that one
\* event holds the sender's new order.
C24_ReorderPayload ==
    \A c \in Clients : \A i \in 1..Len(up[c]) :
        (last.op = "reorder" /\ last.arg = c /\ up[c][i].action = "reorder") =>
            /\ up[c][i].layers = design[c].layers
            /\ handleRemoteUpdate(design[Other(c)], Other(c), up[c][i]).layers
                   = design[c].layers

-----------------------------------------------------------------------------
(* Properties of the reconciler (SpecReducers) *)

\* A reorder or undo-redo event of another participant was processed.
Replacement ==
    /\ last.op = "handleRemoteUpdate"
    /\ last.data.userId # "A"
    /\ last.data.action \in {"reorder", "undo-redo"}

\* C25: after a reorder or undo-redo event of another participant the local
\* layers are the event's array and nothing else, whatever was held locally.
C25_WholesaleReplace == Replacement => me.layers = last.data.layers

C25_Witness ==
    /\ Replacement
    /\ Lid("A", 1) \in Ids(last.before.layers)
    /\ Lid("A", 1) \notin Ids(last.data.layers)
    /\ last.data.layers # <<>>
    /\ me.layers = last.data.layers

-----------------------------------------------------------------------------
(* Properties of the state-recovery relay (SpecJoin) *)

\* c takes the message at the head of its queue, and it is of this type.
Takes(c, type) ==
    /\ down[c] # <<>>
    /\ Head(down[c]).type = type
    /\ down'[c] = Tail(down[c])

-----------------------------------------------------------------------------
(* Properties of the selection (SpecPanel) *)

\* The layer of client c that is selected, if it is present.
Selected(c) ==
    LET i == FindIndex(design[c].layers, design[c].selectedLayerId)
    IN IF i = 0 THEN NoLayer ELSE design[c].layers[i]

\* C27: with the panel selecting unlocked layers only, the selected layer of a
\* client is never locked, whatever lock toggles, remote updates, wholesale
\* replacements, undo and redo have happened.
C27_SelectedUnlocked ==
    \A c \in Clients : Selected(c) # NoLayer => ~Selected(c).locked

\* C28: selectedLayerId is none or the id of a layer the client holds, after
\* local and remote deletes, wholesale replacements, undo and redo.
C28_SelectedPresent ==
    \A c \in Clients :
        design[c].selectedLayerId = None \/ design[c].selectedLayerId \in Ids(design[c].layers)

\* The undo-redo events in a queue.
UndoRedoEvents(q) == SelectSeq(q, LAMBDA m : m.type = "design-update" /\ m.action = "undo-redo")

\* C29: a client emits an undo-redo event only in a step in which its user's
\* undo or redo moved the cursor, and the event carries the layers after that
\* step; adds, deletes, lock toggles and remote events emit none.
C29_UndoRedoOnly ==
    [][\A c \in Clients :
          Len(UndoRedoEvents(up'[c])) > Len(UndoRedoEvents(up[c])) =>
              /\ last'.op \in {"undo", "redo"}
              /\ last'.arg = c
              /\ design'[c].historyIndex # design[c].historyIndex
              /\ up'[c][Len(up'[c])].layers = design'[c].layers]_vars

-----------------------------------------------------------------------------
(* Properties of the layer ids (SpecAdds) *)

\* C30: no client ever holds two layers with the same id, whatever the order
\* of local adds with fresh ids, relayed adds, undo-redo arrays, state
\* responses, undo and redo.
C30_UniqueIds ==
    \A c \in Clients : \A i, j \in 1..Len(design[c].layers) :
        design[c].layers[i].id = design[c].layers[j].id => i = j

\* Both have added a layer, B has recovered the state from A, and each holds
\* the other's layer.
C30_Witness ==
    /\ ~requestTimer["B"]
    /\ \A c \in Clients : up[c] = <<>> /\ down[c] = <<>>
    /\ \A c \in Clients : {Lid("A", 1), Lid("B", 1)} \subseteq Ids(design[c].layers)
    /\ C30_UniqueIds

-----------------------------------------------------------------------------
(* Properties of the REST API (SpecRest) *)

\* The last request was a GET, PUT or DELETE on a well-formed id that had been
\* deleted, or had never been created, when it was made.
OnAbsentDesign ==
    /\ response.method \in {"GET", "PUT", "DELETE"}
    /\ response.id \in WellFormedIds
    /\ response.absent

NotFound == response.status = 404 /\ response.code = "DESIGN_NOT_FOUND"

====
